---- MODULE Spec2Model ----
(***************************************************************************)
(* The two classifiers of the repository as a state machine:               *)
(*   hw2/hw2-code/nndl/softmax.py     class Softmax                        *)
(*   hw3/hw3-code/nndl/neural_net.py  class TwoLayerNet                    *)
(* One classifier instance is constructed (Init) and then receives method  *)
(* calls.  Arrays are modelled by their numpy shape (a sequence of axis    *)
(* lengths); real values are modelled by the expression the code evaluates *)
(* (which elements enter it), not by floating-point numbers: two losses are *)
(* equal here when the code averages the same expression over the same     *)
(* elements.                                                               *)
(***************************************************************************)
EXTENDS Integers, Sequences, FiniteSets, TLC

VARIABLES
    kind,               \* class of the instance: "Softmax" or "TwoLayerNet"
    W,                  \* Softmax.W: its shape <<C, D>>
    Woff,               \* Softmax.W: every entry's value, in units of h, relative
                        \*   to the value the last init_weights / SGD step gave it
    sizes,              \* TwoLayerNet.__init__ arguments
    params,             \* TwoLayerNet.params: key -> shape
    steps,              \* TwoLayerNet.params: the number of gradient steps that
                        \*   produced the current values from the constructor's
    pc,                 \* "idle", the loop a call is in, or "done": the call has
                        \*   returned or raised and the caller holds ret
    call,               \* the current (or last) call: method and arguments
    it,                 \* loop counter of the running loop
    loss_history,       \* local of train
    train_acc_history,  \* local of TwoLayerNet.train
    val_acc_history,    \* local of TwoLayerNet.train
    batch,              \* row indices (0-based) of the minibatch of the iteration
    W0,                 \* the values of W (as Woff) when the last grad_check_sparse
                        \*   was entered, or when W was last initialised
    ret                 \* outcome of the last completed call

vars == <<kind, W, Woff, sizes, params, steps, pc, call, it, loss_history,
          train_acc_history, val_acc_history, batch, W0, ret>>

(***************************************************************************)
(* Bounds of the model.                                                    *)
(***************************************************************************)
MaxTrain == 3       \* rows of a data matrix are 1..MaxTrain
MaxBatch == 2       \* batch_size is 0..MaxBatch
MaxIters == 3       \* num_iters is 0..MaxIters
MaxSteps == 3       \* a TwoLayerNet takes at most this many gradient steps
MaxChecks == 2      \* num_checks is 1..MaxChecks
MaxPerturb == 1     \* grad_check_sparse is called while fewer than this many
                    \*   perturbations are left in W by earlier calls
Dims == 1 .. 2      \* feature, hidden and class counts
Labels == 0 .. 1    \* label values of a label vector

(***************************************************************************)
(* numpy shapes.  Bad stands for the operation raising.                    *)
(***************************************************************************)
Bad == <<-1>>

IsBad(s) == s = Bad

Max2(a, b) == IF a >= b THEN a ELSE b

Min2(a, b) == IF a <= b THEN a ELSE b

\* a.T
T(s) == IF IsBad(s) \/ Len(s) < 2 THEN s ELSE <<s[2], s[1]>>

\* np.dot / np.matmul of a 2-d array with a 2-d or 1-d array
Dot(a, b) ==
    IF IsBad(a) \/ IsBad(b) THEN Bad
    ELSE IF Len(a) = 2 /\ Len(b) = 2
         THEN IF a[2] = b[1] THEN <<a[1], b[2]>> ELSE Bad
    ELSE IF Len(a) = 2 /\ Len(b) = 1
         THEN IF a[2] = b[1] THEN <<a[1]>> ELSE Bad
    ELSE Bad

\* the length two axes of lengths m and n broadcast to; -1 when they do not
BAxis(m, n) == IF m = n \/ n = 1 THEN m ELSE IF m = 1 THEN n ELSE -1

\* a 1-d shape as a 2-d shape with a leading axis of length 1
Pad2(s) == IF Len(s) = 1 THEN <<1, s[1]>> ELSE s

\* the shape numpy broadcasts a and b (of rank 1 or 2) to
Broadcast(a, b) ==
    IF IsBad(a) \/ IsBad(b) THEN Bad
    ELSE IF Len(a) = 1 /\ Len(b) = 1
         THEN IF BAxis(a[1], b[1]) = -1 THEN Bad ELSE <<BAxis(a[1], b[1])>>
    ELSE LET pa == Pad2(a)
             pb == Pad2(b)
         IN  IF BAxis(pa[1], pb[1]) = -1 \/ BAxis(pa[2], pb[2]) = -1 THEN Bad
             ELSE <<BAxis(pa[1], pb[1]), BAxis(pa[2], pb[2])>>

\* np.sum / np.amax / np.argmax of a 2-d array along axis (0 or 1)
Reduce(s, axis) ==
    IF IsBad(s) \/ Len(s) # 2 THEN Bad
    ELSE IF axis = 0 THEN <<s[2]>> ELSE <<s[1]>>

\* np.amax / np.argmax along axis: an axis of length 0 has no maximum
ReduceMax(s, axis) ==
    IF IsBad(s) \/ Len(s) # 2 THEN Bad
    ELSE IF s[axis + 1] = 0 THEN Bad
    ELSE Reduce(s, axis)

\* np.tile(v, (reps, 1)) of a 1-d array
Tile(v, reps) == IF IsBad(v) THEN Bad ELSE <<reps, v[1]>>

\* a -= b: the result must have the shape of a
InPlace(a, b) == IF Broadcast(a, b) = a THEN a ELSE Bad

\* the number of elements of an array
Size(s) == IF Len(s) = 1 THEN s[1] ELSE s[1] * s[2]

\* index along an axis of length dim of element k of the broadcast result
BIdx(k, dim) == IF dim = 1 THEN 1 ELSE k

(***************************************************************************)
(* Arguments.                                                              *)
(***************************************************************************)
\* a data matrix X of shape (N, D)
Matrices == {<<n, d>> : n \in 1 .. MaxTrain, d \in Dims}

\* the label vectors y of shape (n,)
LabelVectors(n) == [1 .. n -> Labels]

\* np.max(y)
MaxOf(y) == CHOOSE m \in {y[k] : k \in 1 .. Len(y)} : \A k \in 1 .. Len(y) : y[k] <= m

\* outcome of a call
Raise(exc) == [status |-> exc]

Pending == [status |-> "running"]

(***************************************************************************)
(* class Softmax                                                           *)
(***************************************************************************)
\* the all-zero offsets of a weight matrix of shape s
ZeroOff(s) == [ix \in (1 .. s[1]) \X (1 .. s[2]) |-> 0]

\* Softmax.loss(X, y) with self.W of shape Wsh.  The value is the mean of the
\* elements -pred[i, c] + lse[j], one per triple <<i, c, j>> of terms.
SoftmaxLoss(Wsh, X, y) ==
    LET pred == Dot(X, T(Wsh))                     \* np.matmul(X, self.W.T)
        A_y  == <<pred[1], Len(y)>>                \* pred[:, y]
        lse  == Reduce(pred, 1)                    \* np.log(np.sum(np.exp(pred), axis=1))
        out  == Broadcast(A_y, lse)                \* -A_y + log_sum_pred_exp
    IN  IF IsBad(pred) THEN Raise("ValueError")
        ELSE IF \E k \in 1 .. Len(y) : y[k] >= pred[2] THEN Raise("IndexError")
        ELSE IF IsBad(out) THEN Raise("ValueError")
        ELSE [status |-> "ok",
              loss |-> [expr |-> "-pred[i,c] + lse[j]",
                        terms |-> {<<BIdx(i, A_y[1]), y[BIdx(j, A_y[2])], BIdx(j, lse[1])>> :
                                     i \in 1 .. out[1], j \in 1 .. out[2]},
                        n |-> Size(out)]]

\* grad = np.dot(X.T, (y_hat - y)) / y.shape[0], with y_hat of shape yhat
SoftmaxGrad(X, yhat, y) ==
    LET diff == Broadcast(yhat, <<Len(y)>>)
        g    == Dot(T(X), diff)
    IN  IF IsBad(g) THEN Bad ELSE g

\* Softmax.loss_and_grad(X, y)
LossAndGrad(Wsh, X, y) ==
    LET numerator == Dot(X, T(Wsh))                          \* np.exp(np.dot(X, self.W.T))
        den1      == Reduce(numerator, 1)                    \* np.sum(numerator, axis=1)
        den       == T(Tile(den1, numerator[2]))             \* np.tile(..., (shape[1], 1)).T
        score     == Broadcast(numerator, den)               \* numerator / denominator
        loss_mle  == Broadcast(den, <<Len(y)>>)              \* np.log(denominator) - y
        y_hat     == ReduceMax(score, 1)                     \* np.argmax(score, axis=1)
        grad      == SoftmaxGrad(X, y_hat, y)
    IN  IF IsBad(numerator) \/ IsBad(loss_mle) \/ IsBad(y_hat) \/ IsBad(grad)
        THEN Raise("ValueError")
        ELSE [status |-> "ok",
              loss |-> [expr |-> "log(denominator[i]) - y[j]",
                        terms |-> {<<BIdx(i, den[1]), 0, BIdx(j, Len(y))>> :
                                     i \in 1 .. loss_mle[1], j \in 1 .. loss_mle[2]},
                        n |-> Size(loss_mle)],
              grad |-> [expr |-> "dot(X.T, argmax(score) - y) / N", shape |-> grad]]

\* Softmax.fast_loss_and_grad(X, y)
FastLossAndGrad(Wsh, X, y) ==
    LET numerator == Dot(X, T(Wsh))
        den1      == Reduce(numerator, 1)
        den       == T(Tile(den1, numerator[2]))
        score     == Broadcast(numerator, den)
        y_max     == ReduceMax(score, 1)                     \* np.amax(score, axis=1)
        loss_mle  == Broadcast(y_max, <<Len(y)>>)            \* -1 * np.log(y_hat) * y
        y_hat     == ReduceMax(score, 1)                     \* np.argmax(score, axis=1)
        grad      == SoftmaxGrad(X, y_hat, y)
    IN  IF IsBad(numerator) \/ IsBad(loss_mle) \/ IsBad(y_hat) \/ IsBad(grad)
        THEN Raise("ValueError")
        ELSE [status |-> "ok",
              loss |-> [expr |-> "-log(max_c score[i,c]) * y[j]",
                        terms |-> {<<BIdx(i, y_max[1]), 0, BIdx(i, Len(y))>> :
                                     i \in 1 .. loss_mle[1]},
                        n |-> Size(loss_mle)],
              grad |-> [expr |-> "dot(X.T, argmax(score) - y) / N", shape |-> grad]]

\* the names softmax.py binds at module level, and the names local to
\* softmax_function
GlobalNames == {"A", "I", "np", "Softmax"}

LocalNames == {"var", "result"}

\* Softmax.predict(X): the outcomes of the call
SoftmaxPredict(Wsh, X) ==
    LET prod == Dot(Wsh, X)                                  \* np.dot(self.W, X)
        out  == ReduceMax(prod, 1)                           \* np.argmax(..., axis=1)
    IN  IF IsBad(prod) THEN {Raise("ValueError")}
        ELSE IF "a" \notin GlobalNames \cup LocalNames THEN {Raise("NameError")}
        ELSE {[status |-> "ok", labels |-> l] : l \in [1 .. out[1] -> 0 .. prod[2] - 1]}

(***************************************************************************)
(* Calls of the Softmax methods that run no loop.                          *)
(***************************************************************************)
Frame == <<kind, W, Woff, sizes, params, steps, it, loss_history,
           train_acc_history, val_acc_history, batch, W0>>

SoftmaxLossCall ==
    /\ kind = "Softmax" /\ pc = "idle"
    /\ \E X \in Matrices : \E y \in LabelVectors(X[1]) :
          /\ call' = [op |-> "loss", X |-> X, y |-> y]
          /\ ret' = SoftmaxLoss(W, X, y)
    /\ pc' = "done"
    /\ UNCHANGED Frame

LossAndGradCall ==
    /\ kind = "Softmax" /\ pc = "idle"
    /\ \E X \in Matrices : \E y \in LabelVectors(X[1]) :
          /\ call' = [op |-> "loss_and_grad", X |-> X, y |-> y]
          /\ ret' = LossAndGrad(W, X, y)
    /\ pc' = "done"
    /\ UNCHANGED Frame

FastLossAndGradCall ==
    /\ kind = "Softmax" /\ pc = "idle"
    /\ \E X \in Matrices : \E y \in LabelVectors(X[1]) :
          /\ call' = [op |-> "fast_loss_and_grad", X |-> X, y |-> y]
          /\ ret' = FastLossAndGrad(W, X, y)
    /\ pc' = "done"
    /\ UNCHANGED Frame

SoftmaxPredictCall ==
    /\ kind = "Softmax" /\ pc = "idle"
    /\ \E X \in Matrices :
          /\ call' = [op |-> "predict", X |-> X]
          /\ ret' \in SoftmaxPredict(W, X)
    /\ pc' = "done"
    /\ UNCHANGED Frame

(***************************************************************************)
(* Softmax.train                                                           *)
(***************************************************************************)
\* the row indices (0-based) of a[start:stop] for an array of n rows
Slice(n, start, stop) ==
    [k \in 1 .. Max2(0, Min2(stop, n) - Min2(start, n)) |-> Min2(start, n) + k - 1]

\* X[rows] and y[rows] for a sequence of 0-based row indices
RowsOf(X, rows) == <<Len(rows), X[2]>>

LabelsOf(y, rows) == [k \in 1 .. Len(rows) |-> y[rows[k] + 1]]

\* lines 204-207: the batches (as row indices) Softmax.train can select in
\* iteration i: the one slice X[start_index : end_index]
SoftmaxBatches(X, i, batch_size) ==
    {Slice(X[1], i * batch_size, i * batch_size + batch_size)}

\* AppendLoss gone wrong: the loss of an empty batch (nan) is not recorded
AppendLossSkipEmpty(hist, rows) ==
    IF Len(rows) = 0 THEN hist ELSE Append(hist, [rows |-> Len(rows)])

\* loss_history.append(loss): the entry records the rows the loss is the mean over
AppendLoss(hist, rows) == Append(hist, [rows |-> Len(rows)])

\* lines 176-182: unpack the shape, re-initialise the weights, empty history
SoftmaxTrainCall ==
    /\ kind = "Softmax" /\ pc = "idle"
    /\ \E X \in Matrices : \E y \in LabelVectors(X[1]) :
       \E batch_size \in 0 .. MaxBatch : \E num_iters \in 0 .. MaxIters :
          /\ call' = [op |-> "train", X |-> X, y |-> y,
                      batch_size |-> batch_size, num_iters |-> num_iters]
          /\ W' = <<MaxOf(y) + 1, X[2]>>
          /\ Woff' = ZeroOff(<<MaxOf(y) + 1, X[2]>>)
          /\ W0' = ZeroOff(<<MaxOf(y) + 1, X[2]>>)
    /\ loss_history' = <<>>
    /\ it' = 0
    /\ batch' = <<>>
    /\ pc' = "softmax_train"
    /\ ret' = Pending
    /\ UNCHANGED <<kind, sizes, params, steps, train_acc_history, val_acc_history>>

\* lines 184-229: one iteration of the loop
SoftmaxTrainIter ==
    /\ pc = "softmax_train" /\ it < call.num_iters
    /\ \E rows \in SoftmaxBatches(call.X, it, call.batch_size) :
          LET r  == FastLossAndGrad(W, RowsOf(call.X, rows), LabelsOf(call.y, rows))
              Wn == Broadcast(W, r.grad.shape)          \* self.W - learning_rate * grad
          IN  /\ batch' = rows
              /\ IF r.status # "ok"
                 THEN /\ ret' = r /\ pc' = "done"
                      /\ UNCHANGED <<W, Woff, it, loss_history>>
                 ELSE IF IsBad(Wn)
                 THEN /\ ret' = Raise("ValueError") /\ pc' = "done"
                      /\ UNCHANGED <<W, Woff, it, loss_history>>
                 ELSE /\ loss_history' = AppendLoss(loss_history, rows)
                      /\ W' = Wn
                      /\ Woff' = ZeroOff(Wn)
                      /\ it' = it + 1
                      /\ UNCHANGED <<pc, ret>>
    /\ UNCHANGED <<kind, sizes, params, steps, call, train_acc_history, val_acc_history, W0>>

\* line 231: return loss_history
SoftmaxTrainReturn ==
    /\ pc = "softmax_train" /\ it = call.num_iters
    /\ ret' = [status |-> "ok", loss_history |-> loss_history]
    /\ pc' = "done"
    /\ batch' = <<>>
    /\ UNCHANGED <<kind, W, Woff, sizes, params, steps, call, it, loss_history,
                   train_acc_history, val_acc_history, W0>>

(***************************************************************************)
(* Softmax.grad_check_sparse                                               *)
(***************************************************************************)
RECURSIVE SumOver(_, _)
SumOver(f, S) ==
    IF S = {} THEN 0
    ELSE LET x == CHOOSE x \in S : TRUE IN f[x] + SumOver(f, S \ {x})

\* the perturbations earlier calls left in W
Perturbed(off) == SumOver(off, DOMAIN off)

GradCheckCall ==
    /\ kind = "Softmax" /\ pc = "idle"
    /\ Perturbed(Woff) < MaxPerturb
    /\ \E X \in Matrices : \E y \in LabelVectors(X[1]) :
       \E your_grad \in {W, <<W[2]>>} : \E num_checks \in 1 .. MaxChecks :
          call' = [op |-> "grad_check_sparse", X |-> X, y |-> y,
                   your_grad |-> your_grad, num_checks |-> num_checks]
    /\ W0' = Woff
    /\ it' = 0
    /\ pc' = "grad_check"
    /\ ret' = Pending
    /\ UNCHANGED <<kind, W, Woff, sizes, params, steps, loss_history,
                   train_acc_history, val_acc_history, batch>>

\* the state of W when one pass of the loop body (lines 108-120) ends, and how
\* it ends: the entry ix is set to oldval + h, the loss is evaluated, the entry
\* is set to oldval - h, the loss is evaluated, the entry is reset.
GradCheckBody(off, ix, Wsh, X, y, your_grad) ==
    LET oldval == off[ix]
        Wp     == [off EXCEPT ![ix] = oldval + 1]
        fxph   == SoftmaxLoss(Wsh, X, y)
        Wm     == [Wp EXCEPT ![ix] = oldval - 1]
        fxmh   == SoftmaxLoss(Wsh, X, y)
        Wr     == [Wm EXCEPT ![ix] = oldval]
    IN  IF fxph.status # "ok" THEN [off |-> Wp, out |-> Raise(fxph.status)]
        ELSE IF fxmh.status # "ok" THEN [off |-> Wm, out |-> Raise(fxmh.status)]
        ELSE IF Len(your_grad) # Len(ix) THEN [off |-> Wr, out |-> Raise("IndexError")]
        ELSE [off |-> Wr, out |-> Pending]

GradCheckIter ==
    /\ pc = "grad_check" /\ it < call.num_checks
    /\ \E ix \in DOMAIN Woff :
          LET b == GradCheckBody(Woff, ix, W, call.X, call.y, call.your_grad)
          IN  /\ Woff' = b.off
              /\ IF b.out.status = "running"
                 THEN /\ it' = it + 1 /\ UNCHANGED <<pc, ret>>
                 ELSE /\ ret' = b.out /\ pc' = "done" /\ UNCHANGED it
    /\ UNCHANGED <<kind, W, sizes, params, steps, call, loss_history,
                   train_acc_history, val_acc_history, batch, W0>>

GradCheckReturn ==
    /\ pc = "grad_check" /\ it = call.num_checks
    /\ ret' = [status |-> "ok"]
    /\ pc' = "done"
    /\ UNCHANGED <<kind, W, Woff, sizes, params, steps, call, it, loss_history,
                   train_acc_history, val_acc_history, batch, W0>>

(***************************************************************************)
(* class TwoLayerNet                                                       *)
(***************************************************************************)
ParamKeys == {"W1", "b1", "W2", "b2"}

\* TwoLayerNet.__init__(input_size, hidden_size, output_size)
InitParams(input_size, hidden_size, output_size) ==
    [k \in ParamKeys |->
        CASE k = "W1" -> <<hidden_size, input_size>>
          [] k = "b1" -> <<hidden_size>>
          [] k = "W2" -> <<output_size, hidden_size>>
          [] k = "b2" -> <<output_size>>]

\* the hidden activations: np.maximum(0, np.dot(X, W1.T) + b1)
Hidden(p, X) == Broadcast(Dot(X, T(p["W1"])), p["b1"])

\* the output scores: np.dot(H1, W2.T) + b2
Scores(p, X) == Broadcast(Dot(Hidden(p, X), T(p["W2"])), p["b2"])

\* the gradients of TwoLayerNet.loss (lines 136-153), by key, for a batch X
\* whose scores have the shape sc
Grads(p, X, sc) ==
    LET H1               == Hidden(p, X)
        softmax_gradient == Broadcast(sc, <<sc[1], 1>>)      \* e_A / summed_e_A.reshape(N, 1)
        gradient_1       == T(Dot(T(H1), softmax_gradient))
        gradient_2       == Dot(softmax_gradient, p["W2"])
    IN  [k \in ParamKeys |->
            CASE k = "b2" -> Reduce(T(softmax_gradient), 1)
              [] k = "W2" -> Broadcast(p["W2"], gradient_1)
              [] k = "b1" -> Reduce(gradient_2, 0)
              [] k = "W1" -> Broadcast(p["W1"], T(Dot(T(X), gradient_2)))]

\* TwoLayerNet.loss(X, y, reg) with labels
NetLoss(p, X, y) ==
    LET sc  == Scores(p, X)
        A_y == Broadcast(<<sc[1]>>, <<Len(y)>>)              \* scores[np.arange(N), y]
        g   == Grads(p, X, sc)
    IN  IF IsBad(sc) THEN Raise("ValueError")
        ELSE IF IsBad(A_y) \/ \E k \in 1 .. Len(y) : y[k] >= sc[2] THEN Raise("IndexError")
        ELSE IF IsBad(Broadcast(Reduce(sc, 1), A_y)) \/ \E k \in ParamKeys : IsBad(g[k])
        THEN Raise("ValueError")
        ELSE [status |-> "ok", loss |-> [rows |-> sc[1]], grads |-> g]

\* TwoLayerNet.loss(X) without labels: the scores
NetScores(p, X) ==
    LET sc == Scores(p, X)
    IN  IF IsBad(sc) THEN Raise("ValueError") ELSE [status |-> "ok", scores |-> sc]

\* NetPredict gone wrong: the arg-max is taken along axis 0, one label per class
NetPredictAxis0(p, X) ==
    LET sc  == Scores(p, X)
        out == ReduceMax(sc, 0)
    IN  IF IsBad(sc) \/ IsBad(out) THEN {Raise("ValueError")}
        ELSE {[status |-> "ok", labels |-> l] : l \in [1 .. out[1] -> 0 .. sc[1] - 1]}

\* TwoLayerNet.predict(X): the outcomes of the call.  The arg-max of a row of
\* real scores is some index of axis 1.
NetPredict(p, X) ==
    LET sc  == Scores(p, X)
        out == ReduceMax(sc, 1)                              \* np.argmax(scores, axis=1)
    IN  IF IsBad(sc) \/ IsBad(out) THEN {Raise("ValueError")}
        ELSE {[status |-> "ok", labels |-> l] : l \in [1 .. out[1] -> 0 .. sc[2] - 1]}

\* SgdStep gone wrong: b1 is rebound to b1 - learning_rate * grads['W1']
SgdStepRebindB1(p, g) ==
    [k \in DOMAIN p |-> IF k = "b1" THEN Broadcast(p[k], g["W1"]) ELSE InPlace(p[k], g[k])]

\* lines 215-218: self.params[k] -= learning_rate * grads[k], for the four keys
SgdStep(p, g) == [k \in DOMAIN p |-> InPlace(p[k], g[k])]

\* Greatest common divisor
RECURSIVE Gcd(_, _)
Gcd(a, b) == IF b = 0 THEN a ELSE Gcd(b, a % b)

IsPow2(n) == \E e \in 0 .. n : 2 ^ e = n

\* line 230: it % iterations_per_epoch == 0 with iterations_per_epoch =
\* max(num_train / batch_size, 1) (line 183), a true division.  When the
\* quotient is at most 1 every iteration is a multiple.  When it is a binary
\* fraction the float is exact and i is a multiple iff i * batch_size is a
\* multiple of num_train.  Otherwise the float is the rounded quotient, whose
\* only integer multiple within any run of this size is 0.
EpochHit(i, num_train, batch_size) ==
    IF num_train <= batch_size THEN TRUE
    ELSE IF IsPow2(batch_size \div Gcd(num_train, batch_size))
         THEN (i * batch_size) % num_train = 0
    ELSE i = 0

\* np.random.choice(num_train, batch_size, replace=True)
RandomChoice(num_train, batch_size) == [1 .. batch_size -> 0 .. num_train - 1]

\* train_acc_history.append(train_acc) / val_acc_history.append(val_acc)
AppendAcc(hist, rows) == Append(hist, [rows |-> rows])

\* the validation sets: one row of any feature count
ValMatrices == {<<1, d>> : d \in Dims}

NetLossCall ==
    /\ kind = "TwoLayerNet" /\ pc = "idle"
    /\ \E X \in Matrices :
          \/ /\ call' = [op |-> "loss", X |-> X, y |-> <<>>, labelled |-> FALSE]
             /\ ret' = NetScores(params, X)
          \/ \E y \in LabelVectors(X[1]) :
             /\ call' = [op |-> "loss", X |-> X, y |-> y, labelled |-> TRUE]
             /\ ret' = NetLoss(params, X, y)
    /\ pc' = "done"
    /\ UNCHANGED Frame

NetPredictCall ==
    /\ kind = "TwoLayerNet" /\ pc = "idle"
    /\ \E X \in Matrices :
          /\ call' = [op |-> "predict", X |-> X]
          /\ ret' \in NetPredict(params, X)
    /\ pc' = "done"
    /\ UNCHANGED Frame

\* lines 182-188
NetTrainCall ==
    /\ kind = "TwoLayerNet" /\ pc = "idle"
    /\ \E X \in Matrices : \E y \in LabelVectors(X[1]) : \E X_val \in ValMatrices :
       \E batch_size \in 0 .. MaxBatch : \E num_iters \in 0 .. MaxIters :
          /\ steps + num_iters <= MaxSteps
          /\ call' = [op |-> "train", X |-> X, y |-> y, X_val |-> X_val,
                      batch_size |-> batch_size, num_iters |-> num_iters]
          /\ IF batch_size = 0                    \* num_train / batch_size
             THEN /\ ret' = Raise("ZeroDivisionError")
                  /\ pc' = "done"
                  /\ UNCHANGED <<it, loss_history, train_acc_history, val_acc_history>>
             ELSE /\ ret' = Pending
                  /\ pc' = "net_train"
                  /\ it' = 0
                  /\ loss_history' = <<>>
                  /\ train_acc_history' = <<>>
                  /\ val_acc_history' = <<>>
    /\ batch' = <<>>
    /\ UNCHANGED <<kind, W, Woff, sizes, params, steps, W0>>

\* lines 190-200: the loop takes its next iteration and draws the minibatch
NetTrainDraw ==
    /\ pc = "net_train" /\ it < call.num_iters
    /\ \E idxs \in RandomChoice(call.X[1], call.batch_size) : batch' = idxs
    /\ pc' = "net_step"
    /\ UNCHANGED <<kind, W, Woff, sizes, params, steps, call, it, loss_history,
                   train_acc_history, val_acc_history, W0, ret>>

\* lines 206-238: loss and gradients of the minibatch, the gradient step and,
\* once per epoch, the accuracy check; then lines 191-192 of the next pass
\* (X_batch = None, y_batch = None)
NetTrainStep ==
    /\ pc = "net_step"
    /\ LET X_batch == RowsOf(call.X, batch)
           y_batch == LabelsOf(call.y, batch)
           r       == NetLoss(params, X_batch, y_batch)
           pn      == SgdStep(params, r.grads)
           epoch   == EpochHit(it, call.X[1], call.batch_size)
       IN  IF r.status # "ok"
           THEN /\ ret' = r /\ pc' = "done"
                /\ UNCHANGED <<params, steps, it, loss_history, batch,
                               train_acc_history, val_acc_history>>
           ELSE IF \E k \in ParamKeys : IsBad(pn[k])
           THEN /\ ret' = Raise("ValueError") /\ pc' = "done"
                /\ UNCHANGED <<params, steps, it, loss_history, batch,
                               train_acc_history, val_acc_history>>
           ELSE IF epoch /\ \E o \in NetPredict(pn, X_batch) \cup NetPredict(pn, call.X_val) :
                                o.status # "ok"
           THEN /\ ret' = Raise("ValueError") /\ pc' = "done"
                /\ params' = pn
                /\ steps' = steps + 1
                /\ UNCHANGED <<it, loss_history, batch, train_acc_history, val_acc_history>>
           ELSE /\ loss_history' = AppendLoss(loss_history, batch)
                /\ params' = pn
                /\ steps' = steps + 1
                /\ train_acc_history' =
                      IF epoch THEN AppendAcc(train_acc_history, X_batch[1])
                      ELSE train_acc_history
                /\ val_acc_history' =
                      IF epoch THEN AppendAcc(val_acc_history, call.X_val[1])
                      ELSE val_acc_history
                /\ it' = it + 1
                /\ batch' = <<>>
                /\ pc' = "net_train"
                /\ UNCHANGED ret
    /\ UNCHANGED <<kind, W, Woff, sizes, call, W0>>

\* lines 240-244
NetTrainReturn ==
    /\ pc = "net_train" /\ it = call.num_iters
    /\ ret' = [status |-> "ok", loss_history |-> loss_history,
               train_acc_history |-> train_acc_history,
               val_acc_history |-> val_acc_history]
    /\ pc' = "done"
    /\ batch' = <<>>
    /\ UNCHANGED <<kind, W, Woff, sizes, params, steps, call, it, loss_history,
                   train_acc_history, val_acc_history, W0>>

(***************************************************************************)
(* The instance after construction, and the calls it receives.             *)
(***************************************************************************)
NoCall == [op |-> "__init__"]

Init ==
    /\ kind \in {"Softmax", "TwoLayerNet"}
    /\ IF kind = "Softmax"
       THEN /\ W \in {<<c, d>> : c \in Dims, d \in Dims}        \* Softmax(dims=[C, D])
            /\ sizes = <<>>
            /\ params = <<>>
       ELSE /\ W = <<1, 1>>                                      \* unused by TwoLayerNet
            /\ sizes \in [input_size : Dims, hidden_size : Dims, output_size : Dims]
            /\ params = InitParams(sizes.input_size, sizes.hidden_size, sizes.output_size)
    /\ steps = 0
    /\ Woff = ZeroOff(W)
    /\ W0 = Woff
    /\ pc = "idle"
    /\ call = NoCall
    /\ it = 0
    /\ loss_history = <<>>
    /\ train_acc_history = <<>>
    /\ val_acc_history = <<>>
    /\ batch = <<>>
    /\ ret = [status |-> "ok"]

\* the caller takes the outcome of the call; the locals of the call are gone
Collect ==
    /\ pc = "done"
    /\ pc' = "idle"
    /\ call' = NoCall
    /\ ret' = [status |-> "ok"]
    /\ it' = 0
    /\ loss_history' = <<>>
    /\ train_acc_history' = <<>>
    /\ val_acc_history' = <<>>
    /\ batch' = <<>>
    /\ W0' = Woff
    /\ UNCHANGED <<kind, W, Woff, sizes, params, steps>>

Next ==
    \/ SoftmaxLossCall
    \/ LossAndGradCall
    \/ FastLossAndGradCall
    \/ SoftmaxPredictCall
    \/ SoftmaxTrainCall
    \/ SoftmaxTrainIter
    \/ SoftmaxTrainReturn
    \/ GradCheckCall
    \/ GradCheckIter
    \/ GradCheckReturn
    \/ NetLossCall
    \/ NetPredictCall
    \/ NetTrainCall
    \/ NetTrainDraw
    \/ NetTrainStep
    \/ NetTrainReturn
    \/ Collect

Spec == Init /\ [][Next]_vars

(***************************************************************************)
(* Properties.                                                             *)
(***************************************************************************)
\* a call of this method of this class has returned or raised
Returned(k, op) == kind = k /\ pc = "done" /\ call.op = op

\* X has the feature count of W and every label of y is a class of W
ValidBatch(Wsh, X, y) == X[2] = Wsh[2] /\ \A k \in 1 .. Len(y) : y[k] < Wsh[1]

\* ceil(a / b) for b > 0
CeilDiv(a, b) == (a + b - 1) \div b

\* C1: in Softmax.train the batch of an iteration is drawn at random from the
\* whole training set: before every iteration, every training row r is in one
\* of the batches the iteration can select.
C1_AnyRowCanBeInBatch ==
    (pc = "softmax_train" /\ it < call.num_iters /\ call.batch_size >= 1)
        => \A r \in 0 .. call.X[1] - 1 :
              \E rows \in SoftmaxBatches(call.X, it, call.batch_size) :
                 \E k \in 1 .. Len(rows) : rows[k] = r

\* C2: Softmax.predict(X) returns normally a label vector with one label per
\* row of X, every label a class of W.
C2_PredictLabels ==
    Returned("Softmax", "predict")
        => /\ ret.status = "ok"
           /\ Len(ret.labels) = call.X[1]
           /\ \A k \in 1 .. Len(ret.labels) : ret.labels[k] \in 0 .. W[1] - 1

\* C3: the gradient loss_and_grad and fast_loss_and_grad return has the
\* shape of W.
C3_GradShapeIsW ==
    ((Returned("Softmax", "loss_and_grad") \/ Returned("Softmax", "fast_loss_and_grad"))
     /\ ret.status = "ok")
        => ret.grad.shape = W

C5_FastEqualsSlow ==
    (Returned("Softmax", "fast_loss_and_grad") /\ ValidBatch(W, call.X, call.y))
        => LET slow == LossAndGrad(W, call.X, call.y)
           IN  /\ ret.status = "ok"
               /\ slow.status = "ok"
               /\ slow.loss = ret.loss
               /\ slow.grad = ret.grad

InTrain == pc \in {"softmax_train", "net_train", "net_step"}

\* C6: the loss history of both train methods holds exactly k entries after k
\* completed iterations, only ever grows by one entry at its end, and is
\* returned with exactly num_iters entries.
C6_LossHistoryLength ==
    /\ [](InTrain => Len(loss_history) = it)
    /\ []((pc = "done" /\ call.op = "train" /\ ret.status = "ok")
            => Len(ret.loss_history) = call.num_iters)
    /\ [][(InTrain /\ InTrain')
            => \/ loss_history' = loss_history
               \/ /\ Len(loss_history') = Len(loss_history) + 1
                  /\ SubSeq(loss_history', 1, Len(loss_history)) = loss_history]_vars

\* a Softmax.train call returned a history of MaxIters losses, the last ones
\* of batches past the end of the training set
C6_Witness ==
    /\ Returned("Softmax", "train") /\ ret.status = "ok"
    /\ call.num_iters = MaxIters /\ Len(ret.loss_history) = MaxIters
    /\ ret.loss_history[MaxIters].rows = 0

\* C7: the accuracy histories TwoLayerNet.train returns both have
\* ceil(num_iters / iterations_per_epoch) entries, iterations_per_epoch =
\* max(num_train / batch_size, 1).
C7_AccHistoryLength ==
    (Returned("TwoLayerNet", "train") /\ ret.status = "ok")
        => LET epochs == IF call.X[1] <= call.batch_size THEN call.num_iters
                         ELSE CeilDiv(call.num_iters * call.batch_size, call.X[1])
           IN  /\ Len(ret.train_acc_history) = epochs
               /\ Len(ret.val_acc_history) = epochs

\* C8: when grad_check_sparse returns or raises, every entry of W holds the
\* value it had before the call.
C8_GradCheckRestoresW ==
    Returned("Softmax", "grad_check_sparse") => Woff = W0

\* C9: the TwoLayerNet parameters keep the keys and the shapes the constructor
\* gave them, through every loss, train and predict call.
C9_ParamShapes ==
    kind = "TwoLayerNet"
        => /\ DOMAIN params = ParamKeys
           /\ params = InitParams(sizes.input_size, sizes.hidden_size, sizes.output_size)

\* a TwoLayerNet.train call returned after MaxIters gradient steps
C9_Witness ==
    /\ Returned("TwoLayerNet", "train") /\ ret.status = "ok"
    /\ call.num_iters = MaxIters /\ it = MaxIters
    /\ sizes.input_size # sizes.hidden_size

\* C10: train with batch_size = 0 raises before any iteration runs, for both
\* classes; TwoLayerNet.train on a valid training set returns normally for
\* every positive batch_size.
C10_BatchSizeZeroRaises ==
    /\ (call.op = "train" /\ call.batch_size = 0)
          => /\ it = 0 /\ loss_history = <<>>
             /\ pc = "done" => ret.status # "ok"
    /\ (Returned("TwoLayerNet", "train") /\ call.batch_size >= 1
        /\ ValidBatch(<<sizes.output_size, sizes.input_size>>, call.X, call.y)
        /\ call.X_val[2] = sizes.input_size)
          => ret.status = "ok"

\* C11: TwoLayerNet.predict(X), for a matrix X of N rows with input_size
\* features, returns N labels, each in 0 .. output_size - 1, whatever number
\* of gradient steps produced the parameters; and the call leaves the
\* parameters as they were.
C11_NetPredictLabels ==
    /\ []((Returned("TwoLayerNet", "predict") /\ call.X[2] = sizes.input_size)
            => /\ ret.status = "ok"
               /\ Len(ret.labels) = call.X[1]
               /\ \A k \in 1 .. Len(ret.labels) : ret.labels[k] \in 0 .. sizes.output_size - 1)
    /\ [][(kind = "TwoLayerNet" /\ pc = "idle" /\ call'.op = "predict")
            => (params' = params /\ steps' = steps)]_vars

\* predict returned MaxTrain labels, not all the same, from parameters that
\* MaxSteps gradient steps produced
C11_Witness ==
    /\ Returned("TwoLayerNet", "predict") /\ ret.status = "ok"
    /\ steps = MaxSteps
    /\ call.X[1] = MaxTrain /\ call.X[1] # sizes.output_size
    /\ \E j, k \in 1 .. Len(ret.labels) : ret.labels[j] # ret.labels[k]

\* C12: in every iteration of Softmax.train and of TwoLayerNet.train with
\* batch_size >= 1, the minibatch given to the loss has exactly batch_size
\* rows (and as many labels).
C12_BatchHasBatchSizeRows ==
    /\ pc = "net_step"
          => /\ RowsOf(call.X, batch)[1] = call.batch_size
             /\ Len(LabelsOf(call.y, batch)) = call.batch_size
    /\ (kind = "Softmax" /\ call.op = "train" /\ call.batch_size >= 1
        /\ pc = "softmax_train" /\ it >= 1)
          => /\ RowsOf(call.X, batch)[1] = call.batch_size
             /\ Len(LabelsOf(call.y, batch)) = call.batch_size

====
